---- MODULE Spec2Model ----
(***************************************************************************)
(* A model of app.py, the Streamlit document translator.                   *)
(*                                                                         *)
(* Streamlit re-executes the whole script on every interaction.  One run   *)
(* constructs a DocumentTranslator, reads the widgets, and, when the       *)
(* "Process Documents" button was pressed, runs the OCR loop and then the  *)
(* translation loop over the uploaded files.  st.session_state is the only *)
(* state that survives from one run to the next.                           *)
(*                                                                         *)
(* Strings are modelled as sequences of tokens, so that concatenation,     *)
(* str.replace and str.join act on them as they do in Python.              *)
(***************************************************************************)
EXTENDS Integers, Sequences, FiniteSets, TLC

VARIABLES
    api_key,            \* self.api_key: os.getenv("MISTRAL_API_KEY")
    file_type,          \* self.file_type: the "Document Type" radio
    target_language,    \* self.target_language: the language selectbox
    uploaded_files,     \* self.uploaded_files: the file uploader's files
    button,             \* what st.button("Process Documents") returned in the latest run
    session_state,      \* st.session_state, a mapping from key to value
    pc,                 \* where the running script is ("idle": no script is running)
    idx,                \* the loop variable of the loop the script is in
    calls,              \* the ingestions and external calls made since the latest reset
    errors,             \* the st.error messages of the latest run
    displayed,          \* the "Final Results" section rendered by the latest run
    replaced,           \* whether the running batch's reset discarded earlier results
    ocr_response,       \* an OCR response handed to ocr_processing on its own
    ocr_output          \* what ocr_processing returned for ocr_response

vars == <<api_key, file_type, target_language, uploaded_files, button,
          session_state, pc, idx, calls, errors, displayed, replaced,
          ocr_response, ocr_output>>

self_vars == <<file_type, target_language, uploaded_files>>
ocr_vars == <<ocr_response, ocr_output>>
main_vars == <<api_key, file_type, target_language, uploaded_files, button,
               session_state, pc, idx, calls, errors, displayed, replaced>>

-----------------------------------------------------------------------------
(* Bounds of the model.                                                    *)

MaxFiles == 2       \* files in one upload
MaxPages == 1       \* pages of an uploaded PDF
MaxOcrPages == 2    \* pages of an OCR response handed to ocr_processing on its own
MaxTokens == 3      \* Markdown tokens of such a response, over all its pages
MaxImages == 2      \* images of such a response, over all its pages

-----------------------------------------------------------------------------
(* The widgets' values.                                                    *)

FILE_TYPES == {"PDF", "Image"}
\* The selectbox offers nine languages; the selection only enters the prompt.
LANGUAGES == {"French"}
MIME_TYPES == {"application/pdf", "image/jpeg", "image/png"}

\* The uploaded files a user can supply: PDFs of 0..MaxPages pages, a file
\* named .pdf whose bytes fitz cannot open, and JPEG and PNG images (whose
\* bytes are no PDF either).
FileKinds ==
    {[type |-> "application/pdf", is_pdf |-> TRUE, pages |-> n] : n \in 0..MaxPages}
    \cup {[type |-> m, is_pdf |-> FALSE, pages |-> 0] : m \in MIME_TYPES}

\* The file at position i of the upload; its position identifies its bytes.
UploadedFile(i, kind) ==
    [id |-> i, type |-> kind.type, is_pdf |-> kind.is_pdf, pages |-> kind.pages]

Uploads ==
    UNION {{[k \in 1..n |-> UploadedFile(k - 1, f[k])] : f \in [1..n -> FileKinds]}
           : n \in 0..MaxFiles}

-----------------------------------------------------------------------------
(* Strings.                                                                *)

Lit(s) == [t |-> "lit", s |-> s]
Str(tokens) == [kind |-> "str", tokens |-> tokens]
Raised(error) == [kind |-> "raised", error |-> error]

\* source.read(), and the PNG bytes of page p of a rasterised PDF
FileBytes(source) == [file |-> source.id, page |-> 0]
PageBytes(source, p) == [file |-> source.id, page |-> p]
NoBytes == [file |-> -1, page |-> 0]

b64encode(bytes) == [base64 |-> bytes]
DataUri(mime, b64) == [mime |-> mime, data |-> b64]

-----------------------------------------------------------------------------
(* Ingestion: process_pdf and process_image.                               *)

\* fitz.open(stream=..., filetype="pdf") raises on bytes that are no PDF, and
\* the rasterised pages of the document are the preview.
process_pdf(source) ==
    IF ~source.is_pdf
    THEN Raised(<<[t |-> "exc", call |-> "fitz.open", of |-> FileBytes(source)]>>)
    ELSE [kind |-> "ok",
          document |-> [type |-> "document_url",
                        document_url |-> DataUri("application/pdf",
                                                 b64encode(FileBytes(source)))],
          preview_src |-> [p \in 1..source.pages |->
                             DataUri("image/png", b64encode(PageBytes(source, p)))],
          file_bytes |-> NoBytes]

\* The bytes are not parsed: any upload is wrapped as an image of its own MIME type.
process_image(source) ==
    [kind |-> "ok",
     document |-> [type |-> "image_url",
                   image_url |-> DataUri(source.type, b64encode(FileBytes(source)))],
     preview_src |-> <<DataUri(source.type, b64encode(FileBytes(source)))>>,
     file_bytes |-> FileBytes(source)]

\* line 201: the radio selection, not the file's own type, picks the path
Ingest(selected_type, file) ==
    IF selected_type = "PDF" THEN process_pdf(file) ELSE process_image(file)

DocumentUrl(document) ==
    IF document.type = "document_url" THEN document.document_url ELSE document.image_url

\* the uploaded bytes a payload carries
DocumentBytes(document) == DocumentUrl(document).data.base64

-----------------------------------------------------------------------------
(* The OCR stage: ocr_processing.                                          *)

\* the placeholder "img-{i}.{ext}" in a page's Markdown
Placeholder(i, ext) == [t |-> "img", index |-> i, ext |-> ext]
\* the text "data:image/jpeg;base64,{base64_image}"
JpegDataRef(base64_image) == [t |-> "data", uri |-> DataUri("image/jpeg", base64_image)]
\* text recognised on a page
PageText(bytes, n) == [t |-> "text", of |-> bytes, page |-> n]

\* str.replace(old, new, 1): only the first occurrence of old becomes new
Replace_First(s, old, new) ==
    [j \in 1..Len(s) |->
        IF s[j] = old /\ (\A h \in 1..(j - 1) : s[h] # old) THEN new ELSE s[j]]

\* str.replace(old, new): every occurrence of old becomes new
Replace(s, old, new) == [j \in 1..Len(s) |-> IF s[j] = old THEN new ELSE s[j]]

\* lines 116-122, from image number i (0-based) on
RECURSIVE ReplaceImages(_, _, _)
ReplaceImages(markdown_content, images, i) ==
    IF i >= Len(images) THEN markdown_content
    ELSE LET image == images[i + 1]
         IN ReplaceImages(
                IF image.has_base64
                THEN Replace(markdown_content, Placeholder(i, "jpeg"),
                             JpegDataRef(image.base64))
                ELSE markdown_content,
                images, i + 1)

\* lines 114-123: one page of the response
ProcessPage(page) ==
    IF page.images # <<>> THEN ReplaceImages(page.markdown, page.images, 0)
    ELSE page.markdown

\* "\n\n".join(pages)
RECURSIVE Join(_)
Join(pages) ==
    IF pages = <<>> THEN <<>>
    ELSE IF Len(pages) = 1 THEN pages[1]
    ELSE pages[1] \o <<Lit("\n\n")>> \o Join(Tail(pages))

\* A variant without the try/except of lines 104 and 125: the exception escapes.
ocr_processing_Raises(document, response) ==
    IF response.raises
    THEN Raised(response.error)
    ELSE LET processed_pages ==
                 [p \in 1..Len(response.pages) |-> ProcessPage(response.pages[p])]
             joined == Join(processed_pages)
         IN IF joined = <<>> THEN Str(<<Lit("No result found.")>>) ELSE Str(joined)

\* response is what client.ocr.process did for the document
ocr_processing(document, response) ==
    IF response.raises
    THEN Str(<<Lit("OCR Error: ")>> \o response.error)
    ELSE LET processed_pages ==
                 [p \in 1..Len(response.pages) |-> ProcessPage(response.pages[p])]
             joined == Join(processed_pages)
         IN IF joined = <<>> THEN Str(<<Lit("No result found.")>>) ELSE Str(joined)

\* What the hosted OCR service can do with a document in a batch: raise,
\* return no page, or return one page of text with one inline image.
OcrService(document) ==
    LET bytes == DocumentBytes(document)
    IN {[raises |-> TRUE,
         error |-> <<[t |-> "exc", call |-> "ocr.process", of |-> bytes]>>,
         pages |-> <<>>],
        [raises |-> FALSE, error |-> <<>>, pages |-> <<>>],
        [raises |-> FALSE, error |-> <<>>,
         pages |-> <<[markdown |-> <<PageText(bytes, 1), Placeholder(0, "jpeg")>>,
                      images |-> <<[has_base64 |-> TRUE,
                                    base64 |-> [image |-> 0, page |-> 1]]>>]>>]}

-----------------------------------------------------------------------------
(* The translation stage: translate_content.                               *)

\* line 134: the prompt sent to the chat model
Prompt(text, language) ==
    <<Lit("Translate to "), Lit(language),
      Lit(" preserving formatting and images:\n\n")>> \o text.tokens

\* What the hosted chat model can do with a prompt: answer or raise.
ChatService(prompt) ==
    {[raises |-> FALSE, error |-> <<>>,
      content |-> Str(<<[t |-> "completion", prompt |-> prompt]>>)],
     [raises |-> TRUE,
      error |-> <<[t |-> "exc", call |-> "chat.complete", of |-> NoBytes]>>,
      content |-> Str(<<>>)]}

\* A variant without the try/except of lines 129 and 138: the exception escapes.
translate_content_Raises(text, language, response) ==
    IF response.raises THEN Raised(response.error) ELSE response.content

\* response is what client.chat.complete did for the prompt
translate_content(text, language, response) ==
    IF response.raises
    THEN Str(<<Lit("Translation Error: ")>> \o response.error)
    ELSE response.content

-----------------------------------------------------------------------------
(* The session state store.                                                *)

Keys == {"ocr_results", "translation_results", "preview_src", "processing_steps"}

\* A variant without the "not in" tests: every run starts from empty results.
initialize_session_state_Always(ss) == [k \in Keys |-> <<>>]

\* lines 39-46: a key that is absent is created empty, one that exists is kept
initialize_session_state(ss) ==
    [k \in Keys |-> IF k \in DOMAIN ss THEN ss[k] ELSE <<>>]

\* A variant that forgets line 192.
ResetResults_KeepsPreview(ss) ==
    [ss EXCEPT !.ocr_results = <<>>,
               !.translation_results = <<>>,
               !.processing_steps = <<>>]

\* lines 190-193
ResetResults(ss) ==
    [ss EXCEPT !.ocr_results = <<>>,
               !.translation_results = <<>>,
               !.preview_src = <<>>,
               !.processing_steps = <<>>]

\* A variant that keeps no preview of a document whose OCR degraded to an error string.
StoreOcr_DropsPreviewOnError(ss, i, ocr_result, processed) ==
    [ss EXCEPT !.ocr_results = Append(@, ocr_result),
               !.preview_src = IF ocr_result.tokens[1] = Lit("OCR Error: ") THEN @
                               ELSE Append(@, processed.preview_src),
               !.processing_steps =
                   [j \in DOMAIN @ \cup {i} |->
                       IF j = i THEN [ocr_done |-> TRUE, translation_done |-> FALSE]
                       ELSE @[j]]]

\* lines 205-216
StoreOcr(ss, i, ocr_result, processed) ==
    [ss EXCEPT !.ocr_results = Append(@, ocr_result),
               !.preview_src = Append(@, processed.preview_src),
               !.processing_steps =
                   [j \in DOMAIN @ \cup {i} |->
                       IF j = i THEN [ocr_done |-> TRUE, translation_done |-> FALSE]
                       ELSE @[j]]]

\* line 238
StoreTranslation(ss, translated) ==
    [ss EXCEPT !.translation_results = Append(@, translated)]

\* line 245, where processing_steps holds the key i
MarkTranslated(ss, i) ==
    [ss EXCEPT !.processing_steps[i].translation_done = TRUE]

\* lines 142-149: one expander per translation, with the preview at the same position
display_results(ss) ==
    [i \in 1..Len(ss.translation_results) |->
        [translated |-> ss.translation_results[i],
         preview |-> IF i <= Len(ss.preview_src) THEN <<ss.preview_src[i]>> ELSE <<>>]]

\* lines 251-254
Display(ss) == IF ss.translation_results # <<>> THEN display_results(ss) ELSE <<>>

-----------------------------------------------------------------------------
(* One run of the script: main.                                            *)

IngestCall(i, ok) == [op |-> "ingest", index |-> i, ok |-> ok]
OcrCall(i, ok) == [op |-> "ocr", index |-> i, ok |-> ok]
TranslateCall(i, ok) == [op |-> "translate", index |-> i, ok |-> ok]

Error(message, i) == [message |-> message, index |-> i]

\* line 181: not self.uploaded_files
NoFiles(files) == files = <<>>
\* A variant that never finds the key missing.
NoKey_Never(key) == FALSE
\* line 185: not self.api_key
NoKey(key) == key = "None"

\* A variant that steps over every other file.
NextIteration_Skips(i) == i + 2
\* the position after iteration i of a loop over the uploaded files
NextIteration(i) == i + 1

\* The object of a run is gone when the run ends.
Discard ==
    /\ file_type' = "None"
    /\ target_language' = "None"
    /\ uploaded_files' = <<>>

Init ==
    /\ api_key \in {"None", "key"}
    /\ file_type = "None"
    /\ target_language = "None"
    /\ uploaded_files = <<>>
    /\ button = FALSE
    /\ session_state = <<>>
    /\ pc = "idle"
    /\ idx = 0
    /\ calls = <<>>
    /\ errors = <<>>
    /\ displayed = <<>>
    /\ replaced = FALSE
    /\ ocr_response = [raises |-> FALSE, error |-> <<>>, pages |-> <<>>]
    /\ ocr_output = [kind |-> "pending"]

\* A run in which the button was not pressed (the first load of the page, or
\* any other interaction): lines 177-178, 180 and 251-254.  The widgets'
\* values play no part in it.
RerunNoPress ==
    /\ pc = "idle"
    /\ button' = FALSE
    /\ session_state' = initialize_session_state(session_state)
    /\ errors' = <<>>
    /\ displayed' = Display(session_state')
    /\ Discard
    /\ UNCHANGED <<api_key, pc, idx, calls, replaced, ocr_vars>>

\* The button can be pressed once a run has rendered it.
ButtonRendered == Keys \subseteq DOMAIN session_state

\* lines 181-183: pressed with no file uploaded; main returns
PressNoFiles ==
    /\ pc = "idle"
    /\ ButtonRendered
    /\ \E files \in Uploads :
        /\ NoFiles(files)
        /\ button' = TRUE
        /\ session_state' = initialize_session_state(session_state)
        /\ errors' = <<Error("Please upload files first", -1)>>
        /\ displayed' = <<>>
    /\ Discard
    /\ UNCHANGED <<api_key, pc, idx, calls, replaced, ocr_vars>>

\* lines 185-187: pressed with files but no API key; st.stop() ends the run
PressNoKey ==
    /\ pc = "idle"
    /\ ButtonRendered
    /\ \E files \in Uploads :
        /\ ~NoFiles(files)
        /\ NoKey(api_key)
        /\ button' = TRUE
        /\ session_state' = initialize_session_state(session_state)
        /\ errors' = <<Error("Missing Mistral API key in .env file", -1)>>
        /\ displayed' = <<>>
    /\ Discard
    /\ UNCHANGED <<api_key, pc, idx, calls, replaced, ocr_vars>>

\* lines 177-193: pressed with files and a key; the results are reset and the
\* OCR loop is entered
PressProcess ==
    /\ pc = "idle"
    /\ ButtonRendered
    /\ \E selected \in FILE_TYPES, language \in LANGUAGES, files \in Uploads :
        /\ ~NoFiles(files)
        /\ ~NoKey(api_key)
        /\ file_type' = selected
        /\ target_language' = language
        /\ uploaded_files' = files
    /\ button' = TRUE
    /\ session_state' = ResetResults(initialize_session_state(session_state))
    /\ replaced' = (\E k \in Keys : session_state[k] # <<>>)
    /\ calls' = <<>>
    /\ errors' = <<>>
    /\ displayed' = <<>>
    /\ pc' = "ocr"
    /\ idx' = 0
    /\ UNCHANGED <<api_key, ocr_vars>>

\* lines 196-219: one iteration of the OCR loop
OcrStep ==
    /\ pc = "ocr"
    /\ LET file == uploaded_files[idx + 1]
           processed == Ingest(file_type, file)
       IN IF processed.kind = "raised"
          THEN /\ calls' = Append(calls, IngestCall(idx, FALSE))
               /\ errors' = Append(errors, Error("OCR failed", idx))
               /\ UNCHANGED session_state
          ELSE \E response \in OcrService(processed.document) :
                 LET ocr_result == ocr_processing(processed.document, response)
                 IN /\ calls' = calls \o <<IngestCall(idx, TRUE),
                                           OcrCall(idx, ~response.raises)>>
                    /\ IF ocr_result.kind = "raised"
                       THEN /\ errors' = Append(errors, Error("OCR failed", idx))
                            /\ UNCHANGED session_state
                       ELSE /\ session_state' =
                                   StoreOcr(session_state, idx, ocr_result, processed)
                            /\ UNCHANGED errors
    /\ IF NextIteration(idx) \in 0..(Len(uploaded_files) - 1)
       THEN idx' = NextIteration(idx) /\ pc' = "ocr"
       ELSE idx' = 0 /\ pc' = "translate"
    /\ UNCHANGED <<api_key, self_vars, button, displayed, replaced, ocr_vars>>

\* lines 222-248: one iteration of the translation loop
TranslateStep ==
    /\ pc = "translate"
    /\ IF idx >= Len(session_state.ocr_results)
       THEN UNCHANGED <<session_state, calls, errors>>
       ELSE LET ocr_text == session_state.ocr_results[idx + 1]
            IN \E response \in ChatService(Prompt(ocr_text, target_language)) :
                 LET translated ==
                         translate_content(ocr_text, target_language, response)
                     stored == StoreTranslation(session_state, translated)
                 IN /\ calls' = Append(calls, TranslateCall(idx, ~response.raises))
                    /\ IF translated.kind = "raised"
                       THEN /\ errors' = Append(errors, Error("Translation failed", idx))
                            /\ UNCHANGED session_state
                       ELSE IF idx \in DOMAIN stored.processing_steps
                       THEN /\ session_state' = MarkTranslated(stored, idx)
                            /\ UNCHANGED errors
                       ELSE \* KeyError at line 245, caught at line 247
                            /\ session_state' = stored
                            /\ errors' = Append(errors, Error("Translation failed", idx))
    /\ IF NextIteration(idx) \in 0..(Len(uploaded_files) - 1)
       THEN idx' = NextIteration(idx) /\ pc' = "translate"
       ELSE idx' = 0 /\ pc' = "display"
    /\ UNCHANGED <<api_key, self_vars, button, displayed, replaced, ocr_vars>>

\* lines 251-254 at the end of a run that processed documents
DisplayResults ==
    /\ pc = "display"
    /\ displayed' = Display(session_state)
    /\ pc' = "idle"
    /\ replaced' = FALSE
    /\ Discard
    /\ UNCHANGED <<api_key, button, session_state, idx, calls, errors, ocr_vars>>

Next ==
    \/ RerunNoPress
    \/ PressNoFiles
    \/ PressNoKey
    \/ PressProcess
    \/ OcrStep
    \/ TranslateStep
    \/ DisplayResults

Spec == Init /\ [][Next]_vars

-----------------------------------------------------------------------------
(* Properties of the batch pipeline.                                       *)

N == Len(uploaded_files)
Running == pc \in {"ocr", "translate", "display"}
OcrLoopOver == pc \in {"translate", "display"}

CallsOf(op) == SelectSeq(calls, LAMBDA c : c.op = op)
\* the uploaded file whose OCR result was appended at position p (0-based)
Owner(p) == CallsOf("ocr")[p + 1].index
IngestionRaised(i) == \E k \in DOMAIN calls : calls[k] = IngestCall(i, FALSE)
NoIngestionRaised == \A k \in DOMAIN calls : calls[k].op = "ingest" => calls[k].ok
\* how many OCR results were appended before uploaded file i was handled
PositionOf(i) == i - Cardinality({j \in 0..(i - 1) : IngestionRaised(j)})

IsOcrError(text) == text.tokens[1] = Lit("OCR Error: ")
IsTranslationError(text) == text.tokens[1] = Lit("Translation Error: ")

\* C1: after the OCR loop ocr_results and preview_src have the same length,
\* and when no ingestion raised that length is the number of uploaded files,
\* also when the OCR call raised for some of them.
C1_IndexAlignment ==
    OcrLoopOver =>
        /\ Len(session_state.ocr_results) = Len(session_state.preview_src)
        /\ NoIngestionRaised => Len(session_state.ocr_results) = N

C1_Witness ==
    /\ pc = "translate" /\ idx = 0 /\ N = 2
    /\ NoIngestionRaised
    /\ \E k \in DOMAIN calls : calls[k].op = "ocr" /\ ~calls[k].ok
    /\ Len(session_state.preview_src) = 2

\* C2: when the OCR call raises for uploaded file i, the string
\* "OCR Error: <the exception>" is appended as that file's OCR result (at
\* position i less the ingestions that raised before it), and once the OCR
\* loop is over every uploaded file has been ingested and every file whose
\* ingestion succeeded has been sent to OCR.
C2_DegradeNotAbort ==
    Running =>
        /\ \A i \in 0..(N - 1) :
              OcrCall(i, FALSE) \in {calls[k] : k \in DOMAIN calls} =>
                  /\ PositionOf(i) < Len(session_state.ocr_results)
                  /\ session_state.ocr_results[PositionOf(i) + 1] =
                         Str(<<Lit("OCR Error: "),
                               [t |-> "exc", call |-> "ocr.process",
                                of |-> FileBytes(uploaded_files[i + 1])]>>)
                  /\ i \in DOMAIN session_state.processing_steps
        /\ OcrLoopOver =>
              \A i \in 0..(N - 1) :
                  /\ \E k \in DOMAIN calls : calls[k].op = "ingest" /\ calls[k].index = i
                  /\ IngestCall(i, TRUE) \in {calls[k] : k \in DOMAIN calls} =>
                        \E k \in DOMAIN calls : calls[k].op = "ocr" /\ calls[k].index = i

C2_Witness ==
    /\ pc = "translate" /\ idx = 0 /\ N = 2
    /\ CallsOf("ocr") = <<OcrCall(0, FALSE), OcrCall(1, TRUE)>>
    /\ IsOcrError(session_state.ocr_results[1])
    /\ ~IsOcrError(session_state.ocr_results[2])

\* C3: when the translation loop is over, translation_results is as long as
\* ocr_results and its entry at every position is what translate_content
\* returns for the OCR result at that position and the selected language: the
\* model's completion or a "Translation Error: ..." string.
C3_TranslationsAligned ==
    pc = "display" =>
        /\ Len(session_state.translation_results) = Len(session_state.ocr_results)
        /\ \A p \in 1..Len(session_state.translation_results) :
              LET text == session_state.ocr_results[p]
                  prompt == <<Lit("Translate to "), Lit(target_language),
                              Lit(" preserving formatting and images:\n\n")>>
                            \o text.tokens
              IN session_state.translation_results[p] \in
                    {Str(<<[t |-> "completion", prompt |-> prompt]>>),
                     Str(<<Lit("Translation Error: "),
                           [t |-> "exc", call |-> "chat.complete", of |-> NoBytes]>>)}

C3_Witness ==
    /\ pc = "display"
    /\ Len(session_state.translation_results) = 2
    /\ IsOcrError(session_state.ocr_results[1])
    /\ ~IsTranslationError(session_state.translation_results[1])
    /\ IsTranslationError(session_state.translation_results[2])

MissingKeyError == Error("Missing Mistral API key in .env file", -1)
NoFilesError == Error("Please upload files first", -1)

\* C4: with no API key the pipeline never runs (no ingestion, no OCR or
\* translation call), and a press of the button with files uploaded ends the
\* run at once with the missing-key error and leaves ocr_results,
\* translation_results, preview_src and processing_steps as they were.
C4_MissingKeyBlocksRun ==
    /\ [](api_key = "None" => pc = "idle" /\ calls = <<>>)
    /\ [][(pc = "idle" /\ api_key = "None" /\ button' /\ errors' # <<NoFilesError>>)
            => /\ pc' = "idle"
               /\ errors' = <<MissingKeyError>>
               /\ session_state' = session_state
               /\ calls' = calls]_vars

C4_Witness ==
    /\ api_key = "None"
    /\ button
    /\ errors = <<MissingKeyError>>
    /\ ButtonRendered

\* C5: a run in which the button is not pressed makes no ingestion, OCR or
\* translation call, leaves the four session sequences unchanged, and renders
\* every stored translation again.
C5_RerunRepeatsNothing ==
    [][(pc = "idle" /\ ButtonRendered /\ ~button')
         => /\ pc' = "idle"
            /\ session_state' = session_state
            /\ calls' = calls
            /\ Len(displayed') = Len(session_state.translation_results)
            /\ \A p \in 1..Len(displayed') :
                  displayed'[p].translated = session_state.translation_results[p]]_vars

C5_Witness ==
    /\ pc = "idle"
    /\ ~button
    /\ Len(calls) = 6
    /\ Len(session_state.translation_results) = 2
    /\ Len(displayed) = 2

\* C6: while documents are processed, and whenever results are on display,
\* the four session sequences hold what the current batch produced and
\* nothing else: one OCR result, one preview and one processing_steps record
\* per OCR call of the batch, one translation per translation call, and each
\* preview is that of the batch's file it was stored for.
C6_CurrentBatchOnly ==
    (Running \/ displayed # <<>>) =>
        /\ Len(session_state.ocr_results) = Len(CallsOf("ocr"))
        /\ Len(session_state.preview_src) = Len(CallsOf("ocr"))
        /\ Len(session_state.translation_results) = Len(CallsOf("translate"))
        /\ DOMAIN session_state.processing_steps =
               {CallsOf("ocr")[k].index : k \in 1..Len(CallsOf("ocr"))}
        /\ Running =>
              \A p \in 1..Len(session_state.preview_src) :
                  LET file == uploaded_files[Owner(p - 1) + 1]
                  IN session_state.preview_src[p] =
                         IF file_type = "PDF"
                         THEN [n \in 1..file.pages |->
                                 DataUri("image/png", b64encode(PageBytes(file, n)))]
                         ELSE <<DataUri(file.type, b64encode(FileBytes(file)))>>

C6_Witness ==
    /\ pc = "display"
    /\ replaced
    /\ Len(session_state.translation_results) = 1
    /\ Len(session_state.preview_src) = 1

\* C7: for every uploaded file ingested without raising, the payload is
\* tagged document_url with an application/pdf data URI when the file is a
\* PDF and image_url with the file's own MIME type when it is a JPEG or PNG,
\* whatever the "Document Type" selection, and its preview is not empty.
C7_PayloadMatchesFileType ==
    Running =>
        \A i \in 0..(N - 1) :
            IngestCall(i, TRUE) \in {calls[k] : k \in DOMAIN calls} =>
                LET file == uploaded_files[i + 1]
                    document == Ingest(file_type, file).document
                IN /\ file.type = "application/pdf" =>
                          /\ document.type = "document_url"
                          /\ DocumentUrl(document).mime = "application/pdf"
                   /\ file.type # "application/pdf" =>
                          /\ document.type = "image_url"
                          /\ DocumentUrl(document).mime = file.type
                   /\ Ingest(file_type, file).preview_src # <<>>

\* C8: when the ingestion of some uploaded file raised, position i of
\* ocr_results, preview_src and translation_results still holds the entries
\* of uploaded file i, and processing_steps[i].translation_done is true
\* exactly when the OCR text of file i was translated and stored.
C8_AlignmentGuarded ==
    (pc = "display" /\ \E i \in 0..(N - 1) : IngestionRaised(i)) =>
        \A i \in 0..(N - 1) :
            /\ i < Len(session_state.ocr_results) => Owner(i) = i
            /\ i \in DOMAIN session_state.processing_steps =>
                  (session_state.processing_steps[i].translation_done
                      <=> \E p \in 0..(Len(session_state.translation_results) - 1) :
                              Owner(p) = i)

\* the uploaded file an entry of calls works on
DocumentOf(call) == IF call.op = "translate" THEN Owner(call.index) ELSE call.index

\* C9 as stated: no ingestion or external call is made for a document while
\* an earlier document of the upload still has a stage to go (it was
\* ingested and its OCR text is not translated yet).
C9_OneDocumentAtATime ==
    Running =>
        \A k \in DOMAIN calls :
            \A i \in 0..(DocumentOf(calls[k]) - 1) :
                \E h \in 1..(k - 1) :
                    \/ calls[h] = IngestCall(i, FALSE)
                    \/ calls[h].op = "translate" /\ Owner(calls[h].index) = i

\* C9 as amended: the batch runs in two phases, each in upload order.  In the
\* OCR phase every uploaded file is ingested and, when its ingestion
\* succeeded, sent to OCR at once, before the next file is touched; the
\* translation calls start only when the OCR phase is over and go through the
\* stored OCR results in their stored order.
C9_PhaseOrder ==
    Running =>
        /\ \A k, l \in DOMAIN calls :
              k < l =>
                 /\ calls[k].op = "translate" =>
                       calls[l].op = "translate" /\ calls[k].index < calls[l].index
                 /\ (calls[k].op # "translate" /\ calls[l].op # "translate") =>
                       \/ calls[k].index < calls[l].index
                       \/ /\ l = k + 1
                          /\ calls[k] = IngestCall(calls[l].index, TRUE)
                          /\ calls[l].op = "ocr"
        /\ \A l \in DOMAIN calls :
              calls[l].op = "ocr" => l > 1 /\ calls[l - 1] = IngestCall(calls[l].index, TRUE)
        /\ \A k \in DOMAIN calls :
              calls[k] = IngestCall(calls[k].index, TRUE) =>
                  k < Len(calls) /\ calls[k + 1].op = "ocr"
        /\ {calls[k].index : k \in {h \in DOMAIN calls : calls[h].op = "ingest"}}
               = IF pc = "ocr" THEN 0..(idx - 1) ELSE 0..(N - 1)
        /\ pc = "ocr" => CallsOf("translate") = <<>>
        /\ pc = "display" =>
              {calls[k].index : k \in {h \in DOMAIN calls : calls[h].op = "translate"}}
                  = 0..(Len(session_state.ocr_results) - 1)

C9_Witness ==
    /\ pc = "display"
    /\ N = 2
    /\ Len(CallsOf("ocr")) = 2
    /\ Len(CallsOf("translate")) = 2

-----------------------------------------------------------------------------
(* ocr_processing on its own, over the responses the OCR service may give. *)

\* what a page's Markdown is made of: recognised text and placeholders
MarkdownTokens ==
    {PageText(NoBytes, 0), Placeholder(0, "jpeg"), Placeholder(1, "jpeg"),
     Placeholder(0, "png")}

\* how many Markdown tokens, and how many images, the pages hold in all
RECURSIVE CountTokens(_)
CountTokens(pages) ==
    IF pages = <<>> THEN 0 ELSE Len(pages[1].markdown) + CountTokens(Tail(pages))

RECURSIVE CountImages(_)
CountImages(pages) ==
    IF pages = <<>> THEN 0 ELSE Len(pages[1].images) + CountImages(Tail(pages))

\* the payload of a JPEG upload
SomeDocument ==
    process_image(UploadedFile(0, [type |-> "image/jpeg", is_pdf |-> FALSE,
                                   pages |-> 0])).document

\* The service has answered with no page yet.
InitOcr ==
    /\ api_key = "key"
    /\ file_type = "None"
    /\ target_language = "None"
    /\ uploaded_files = <<>>
    /\ button = FALSE
    /\ session_state = <<>>
    /\ pc = "idle"
    /\ idx = 0
    /\ calls = <<>>
    /\ errors = <<>>
    /\ displayed = <<>>
    /\ replaced = FALSE
    /\ ocr_response = [raises |-> FALSE, error |-> <<>>, pages |-> <<>>]
    /\ ocr_output = [kind |-> "pending"]

Composing == ocr_output.kind = "pending" /\ ~ocr_response.raises

\* The service's response gets one more page.
AddPage ==
    /\ Composing
    /\ Len(ocr_response.pages) < MaxOcrPages
    /\ ocr_response' =
           [ocr_response EXCEPT !.pages = Append(@, [markdown |-> <<>>, images |-> <<>>])]
    /\ UNCHANGED <<main_vars, ocr_output>>

\* The Markdown of the response's last page gets one more token.
AddToken ==
    /\ Composing
    /\ ocr_response.pages # <<>>
    /\ CountTokens(ocr_response.pages) < MaxTokens
    /\ \E token \in MarkdownTokens :
          LET p == Len(ocr_response.pages)
          IN ocr_response' =
                 [ocr_response EXCEPT !.pages[p].markdown = Append(@, token)]
    /\ UNCHANGED <<main_vars, ocr_output>>

\* The response's last page gets one more image, with or without a base64 attribute.
AddImage ==
    /\ Composing
    /\ ocr_response.pages # <<>>
    /\ CountImages(ocr_response.pages) < MaxImages
    /\ \E has_base64 \in BOOLEAN :
          LET p == Len(ocr_response.pages)
          IN ocr_response' =
                 [ocr_response EXCEPT !.pages[p].images =
                     Append(@, [has_base64 |-> has_base64,
                                base64 |-> [image |-> Len(@), page |-> p]])]
    /\ UNCHANGED <<main_vars, ocr_output>>

\* client.ocr.process raises instead of answering.
OcrRaises ==
    /\ Composing
    /\ ocr_response.pages = <<>>
    /\ ocr_response' =
           [raises |-> TRUE,
            error |-> <<[t |-> "exc", call |-> "ocr.process", of |-> NoBytes]>>,
            pages |-> <<>>]
    /\ UNCHANGED <<main_vars, ocr_output>>

\* lines 103-126 applied to the response
RunOcr ==
    /\ ocr_output.kind = "pending"
    /\ ocr_output' = ocr_processing(SomeDocument, ocr_response)
    /\ UNCHANGED <<main_vars, ocr_response>>

NextOcr ==
    \/ AddPage
    \/ AddToken
    \/ AddImage
    \/ OcrRaises
    \/ RunOcr

SpecOcr == InitOcr /\ [][NextOcr]_vars

\* the positions of token in markdown
Occurrences(markdown, token) == {j \in DOMAIN markdown : markdown[j] = token}

\* whether the token at position j of the page's Markdown is the placeholder
\* of the page's image number i (0-based) and that image carries base64 data
NamesImage(page, j, i) ==
    /\ i < Len(page.images)
    /\ page.images[i + 1].has_base64
    /\ page.markdown[j] = Placeholder(i, "jpeg")

OcrDone == ocr_output.kind # "pending" /\ ~ocr_response.raises

Joined(pages) == IF Join(pages) = <<>> THEN Str(<<Lit("No result found.")>>)
                 ELSE Str(Join(pages))

\* C10 as stated: of the placeholder of each image only the first occurrence
\* is replaced by that image's data reference, so that the Nth placeholder of
\* the text holds the Nth image; every other token is unchanged and the pages
\* are joined with a blank line in page order.
C10_FirstOccurrenceOnly ==
    OcrDone =>
        ocr_output =
            Joined([p \in 1..Len(ocr_response.pages) |->
                LET page == ocr_response.pages[p]
                IN [j \in 1..Len(page.markdown) |->
                      IF \E i \in 0..(Len(page.images) - 1) :
                            /\ NamesImage(page, j, i)
                            /\ \A h \in Occurrences(page.markdown, page.markdown[j]) : j <= h
                      THEN JpegDataRef(page.images[page.markdown[j].index + 1].base64)
                      ELSE page.markdown[j]]])

\* C10 as amended: every occurrence of the token img-{i}.jpeg in a page's
\* Markdown is replaced by the jpeg data reference of the page's image at
\* position i (0-based, in returned order) when that image carries base64
\* data; every other token is unchanged, and the pages are joined with a
\* blank line in page order, an empty join giving "No result found.".
C10_EveryOccurrence ==
    OcrDone =>
        ocr_output =
            Joined([p \in 1..Len(ocr_response.pages) |->
                LET page == ocr_response.pages[p]
                IN [j \in 1..Len(page.markdown) |->
                      IF \E i \in 0..(Len(page.images) - 1) : NamesImage(page, j, i)
                      THEN JpegDataRef(page.images[page.markdown[j].index + 1].base64)
                      ELSE page.markdown[j]]])

C10_Witness ==
    /\ OcrDone
    /\ Len(ocr_response.pages) = 2
    /\ ocr_response.pages[1].markdown = <<Placeholder(0, "jpeg"), Placeholder(0, "jpeg")>>
    /\ ocr_response.pages[1].images # <<>>
    /\ ocr_response.pages[1].images[1].has_base64
    /\ ocr_response.pages[2].markdown = <<PageText(NoBytes, 0)>>
    /\ Len(ocr_output.tokens) = 4
    /\ ocr_output.tokens[2] = JpegDataRef([image |-> 0, page |-> 1])

====
